---- MODULE Spec2Model ----
(***************************************************************************)
(* Model of dnf5.py: the command-line driver `main`, the construction of   *)
(* Dnf5AnsibleUsecases, and its two use cases `list` and `ensure`.         *)
(*                                                                         *)
(* One run of the script is one behaviour.  The package engine (libdnf5)   *)
(* is the environment: every value it returns (the packages of a resolved  *)
(* transaction, its resolve logs, the result of a signature check, the     *)
(* run result and its problem log, the unneeded packages, whether loading  *)
(* the configuration or the repositories raises) is chosen                 *)
(* nondeterministically from small sets.  Engine calls made inside         *)
(* `ensure` return normally; the engine reports failure there through the  *)
(* values it returns.                                                      *)
(*                                                                         *)
(* `log` is the history of what the script did, in program order: every    *)
(* engine call, every line printed to stdout, every uncaught exception.    *)
(* Each event is a 4-tuple of strings <<type, name, arg1, arg2>>.          *)
(***************************************************************************)
EXTENDS Integers, Sequences, FiniteSets

VARIABLES argv, pc, log, goal, unneeded, tx, result, txProblems, items, exitStatus

vars == <<argv, pc, log, goal, unneeded, tx, result, txProblems, items, exitStatus>>

-----------------------------------------------------------------------------
(* Bounds of the model *)

MaxSpecs == 2          \* longest spec list handed to `ensure`
MaxListArgs == 2       \* longest argument list handed to `list`
MaxTxPkgs == 2         \* most packages in a resolved transaction
MaxProblems == 2       \* most lines in a resolve log / transaction problem log

(* Program constant: the smallest len(sys.argv) that passes the usage check *)
MinArgc == 3

-----------------------------------------------------------------------------
(* Helpers *)

SeqsUpTo(S, n) == UNION {[1..k -> S] : k \in 0..n}

NoDup(s) == \A i, j \in DOMAIN s : i # j => s[i] # s[j]

Ev(t, n, a, b) == <<t, n, a, b>>
Call(n, a) == Ev("call", n, a, "")
Stdout(n, a, b) == Ev("print", n, a, b)
Raise(n) == Ev("raise", n, "", "")

\* positions of the events of one type and name in the history
At(t, n) == {i \in DOMAIN log : log[i][1] = t /\ log[i][2] = n}
CallsOf(n) == At("call", n)
PrintsOf(n) == At("print", n)

\* the events of s whose name is in names, order kept
RECURSIVE SelectName(_, _)
SelectName(s, names) ==
    IF s = <<>> THEN <<>>
    ELSE IF Head(s)[2] \in names
         THEN <<Head(s)>> \o SelectName(Tail(s), names)
         ELSE SelectName(Tail(s), names)

RECURSIVE Concat(_)
Concat(ss) == IF ss = <<>> THEN <<>> ELSE Head(ss) \o Concat(Tail(ss))

-----------------------------------------------------------------------------
(* The engine's state and answers (libdnf5, external to the script) *)

\* the package index: installed packages live in repository "@System"
Index ==
    << [name |-> "a", arch |-> "x86_64", epoch |-> 0, version |-> "1", release |-> "1", repo |-> "@System"],
       [name |-> "a", arch |-> "x86_64", epoch |-> 0, version |-> "2", release |-> "1", repo |-> "fedora"],
       [name |-> "b", arch |-> "noarch", epoch |-> 1, version |-> "1", release |-> "2", repo |-> "updates"],
       [name |-> "c", arch |-> "x86_64", epoch |-> 0, version |-> "3", release |-> "1", repo |-> "@System"] >>

EnabledRepos == <<"fedora", "updates">>

RECURSIVE FilterSeq(_, _)
FilterSeq(s, keep) ==
    IF s = <<>> THEN <<>>
    ELSE IF Head(s) \in keep THEN <<Head(s)>> \o FilterSeq(Tail(s), keep)
         ELSE FilterSeq(Tail(s), keep)

IsInstalled(p) == p.repo = "@System"
IsAvailable(p) == p.repo # "@System"
IsUpgrade(p) ==
    /\ IsAvailable(p)
    /\ \E i \in DOMAIN Index :
          IsInstalled(Index[i]) /\ Index[i].name = p.name /\ Index[i].version # p.version

\* PackageQuery.filter_installed / filter_upgrades / filter_available
QueryFilter(kind) ==
    FilterSeq(Index, {p \in {Index[i] : i \in DOMAIN Index} :
                        CASE kind = "installed" -> IsInstalled(p)
                          [] kind = "upgrades"  -> IsUpgrade(p)
                          [] kind = "available" -> IsAvailable(p)
                          [] OTHER -> FALSE})

\* PackageQuery.resolve_pkg_spec: a glob or a package name, over the whole index
ResolvePkgSpec(spec) ==
    FilterSeq(Index, {p \in {Index[i] : i \in DOMAIN Index} : spec = "*" \/ spec = p.name})

\* what the engine may answer to "installed and unneeded packages"
UnneededChoices == {<<>>, <<"c">>, <<"a", "c">>}

\* what goal.resolve() may return: the transaction's packages with their
\* actions (no package twice) and its resolve log; an empty goal resolves
\* to a transaction without packages
TxItems == {<<"a", "Install">>, <<"b", "Upgrade">>, <<"c", "Remove">>}
LogLines == <<"p1", "p2", "p3", "p4">>
ProblemLogs == {SubSeq(LogLines, 1, k) : k \in 0..MaxProblems}

ResolveOutcomes(g) ==
    IF g = <<>>
    THEN {[pkgs |-> <<>>, problems |-> <<>>]}
    ELSE {[pkgs |-> ps, problems |-> pr] :
             ps \in {s \in SeqsUpTo(TxItems, MaxTxPkgs) : NoDup(s)},
             pr \in ProblemLogs}

SigResults == {"OK", "FAILED_NOT_SIGNED"}
RunResults == {"SUCCESS", "ERROR_RESOLVE", "ERROR_RPM_RUN"}

-----------------------------------------------------------------------------
(* Command lines *)

Prog == "dnf5.py"
Actions == {"installed", "present", "latest", "absent", "autoremove", "bogus"}
Specs == {"*", "a", "b"}
ListWords == {"installed", "upgrades", "available", "repos", "repositories", "a", "*", "zzz"}

Argvs ==
    {<<Prog>>, <<Prog, "list">>, <<Prog, "ensure">>}
    \cup {<<Prog, "list">> \o s : s \in SeqsUpTo(ListWords, MaxListArgs) \ {<<>>}}
    \cup {<<Prog, "ensure", a>> \o s : a \in Actions, s \in SeqsUpTo(Specs, MaxSpecs)}
    \cup {<<Prog, "frobnicate", "a">>}

NoTx == [pkgs |-> <<>>, problems |-> <<>>]

Init ==
    /\ argv \in Argvs
    /\ pc = "main"
    /\ log = <<>>
    /\ goal = <<>>
    /\ unneeded = <<>>
    /\ tx = NoTx
    /\ result = ""
    /\ txProblems = <<>>
    /\ items = <<>>
    /\ exitStatus = -1

-----------------------------------------------------------------------------
(* Pure parts of the script *)

\* faulty variant: the usage check is off by one
UsageError_OffByOne(av) == Len(av) < MinArgc - 1

\* main: len(sys.argv) < 3
UsageError(av) == Len(av) < MinArgc

\* main: command = sys.argv[1]; args = sys.argv[2:]
Command(av) == av[2]
Args(av) == SubSeq(av, 3, Len(av))

\* _package_dict: the epoch is converted with str()
EpochStr(n) == CASE n = 0 -> "0" [] n = 1 -> "1" [] OTHER -> "?"
PackageDict(p) ==
    [name |-> p.name, arch |-> p.arch, epoch |-> EpochStr(p.epoch),
     release |-> p.release, version |-> p.version, repo |-> p.repo]

MapDict(s) == [i \in DOMAIN s |-> PackageDict(s[i])]

\* faulty variant: in spec mode the first argument is not resolved as a spec
List_FirstArgSkipped(args) ==
    IF args[1] \in {"installed", "upgrades", "available"}
    THEN MapDict(QueryFilter(args[1]))
    ELSE IF args[1] \in {"repos", "repositories"}
    THEN [i \in DOMAIN EnabledRepos |-> [repoid |-> EnabledRepos[i], state |-> "enabled"]]
    ELSE Concat([i \in DOMAIN Tail(args) |-> MapDict(ResolvePkgSpec(Tail(args)[i]))])

\* list(args), for a non-empty args
List(args) ==
    IF args[1] \in {"installed", "upgrades", "available"}
    THEN MapDict(QueryFilter(args[1]))
    ELSE IF args[1] \in {"repos", "repositories"}
    THEN [i \in DOMAIN EnabledRepos |-> [repoid |-> EnabledRepos[i], state |-> "enabled"]]
    ELSE Concat([i \in DOMAIN args |-> MapDict(ResolvePkgSpec(args[i]))])

\* ensure, line 223: specs[0] is evaluated when cmd == 'latest', and raises
\* IndexError on an empty spec list
EnsureRaises(cmd, specs) == cmd = "latest" /\ specs = <<>>

\* faulty variant: `absent` adds install intents
EnsureIntents_AbsentInstalls(cmd, specs, pkgs) ==
    IF cmd = "latest" /\ specs[1] = "*"
    THEN << <<"add_rpm_upgrade", "">> >>
    ELSE IF cmd \in {"installed", "present", "absent"}
    THEN [i \in DOMAIN specs |-> <<"add_install", specs[i]>>]
    ELSE IF cmd = "latest"
    THEN [i \in DOMAIN specs |-> <<"add_upgrade", specs[i]>>]
    ELSE IF cmd = "autoremove"
    THEN [i \in DOMAIN pkgs |-> <<"add_rpm_remove", pkgs[i]>>]
    ELSE <<>>

\* faulty variant: an unrecognized action is treated as `present`
EnsureIntents_FallbackInstall(cmd, specs, pkgs) ==
    IF cmd = "latest" /\ specs[1] = "*"
    THEN << <<"add_rpm_upgrade", "">> >>
    ELSE IF cmd = "latest"
    THEN [i \in DOMAIN specs |-> <<"add_upgrade", specs[i]>>]
    ELSE IF cmd = "absent"
    THEN [i \in DOMAIN specs |-> <<"add_remove", specs[i]>>]
    ELSE IF cmd = "autoremove"
    THEN [i \in DOMAIN pkgs |-> <<"add_rpm_remove", pkgs[i]>>]
    ELSE [i \in DOMAIN specs |-> <<"add_install", specs[i]>>]

\* faulty variant: the whole-system upgrade needs the spec list to be exactly `*`
EnsureIntents_WholeListWildcard(cmd, specs, pkgs) ==
    IF cmd = "latest" /\ specs = <<"*">>
    THEN << <<"add_rpm_upgrade", "">> >>
    ELSE IF cmd \in {"installed", "present"}
    THEN [i \in DOMAIN specs |-> <<"add_install", specs[i]>>]
    ELSE IF cmd = "latest"
    THEN [i \in DOMAIN specs |-> <<"add_upgrade", specs[i]>>]
    ELSE IF cmd = "absent"
    THEN [i \in DOMAIN specs |-> <<"add_remove", specs[i]>>]
    ELSE IF cmd = "autoremove"
    THEN [i \in DOMAIN pkgs |-> <<"add_rpm_remove", pkgs[i]>>]
    ELSE <<>>

\* ensure, lines 223-241: the intent-adding calls, in order
EnsureIntents(cmd, specs, pkgs) ==
    IF cmd = "latest" /\ specs[1] = "*"
    THEN << <<"add_rpm_upgrade", "">> >>
    ELSE IF cmd \in {"installed", "present"}
    THEN [i \in DOMAIN specs |-> <<"add_install", specs[i]>>]
    ELSE IF cmd = "latest"
    THEN [i \in DOMAIN specs |-> <<"add_upgrade", specs[i]>>]
    ELSE IF cmd = "absent"
    THEN [i \in DOMAIN specs |-> <<"add_remove", specs[i]>>]
    ELSE IF cmd = "autoremove"
    THEN [i \in DOMAIN pkgs |-> <<"add_rpm_remove", pkgs[i]>>]
    ELSE <<>>

\* faulty variant: the resolve problems are reported before the signatures
\* are checked
StepAfter_ProblemsFirst(p) ==
    CASE p = "goal"       -> "resolve"
      [] p = "resolve"    -> "problems"
      [] p = "problems"   -> "signatures"
      [] p = "signatures" -> "summary"
      [] p = "summary"    -> "download"
      [] p = "download"   -> "describe"
      [] p = "describe"   -> "run"
      [] p = "run"        -> "classify"
      [] p = "classify"   -> "return"

\* ensure lines 247-278 and _do_transaction lines 72-90 are straight-line
\* code: the statement block that follows each block
StepAfter(p) ==
    CASE p = "goal"       -> "resolve"
      [] p = "resolve"    -> "signatures"
      [] p = "signatures" -> "problems"
      [] p = "problems"   -> "summary"
      [] p = "summary"    -> "download"
      [] p = "download"   -> "describe"
      [] p = "describe"   -> "run"
      [] p = "run"        -> "classify"
      [] p = "classify"   -> "return"

IntentCalls(g) == [i \in DOMAIN g |-> Call(g[i][1], g[i][2])]

\* faulty variant: only the first transaction problem is printed
ClassifyOutput_FirstProblemOnly(res, problems) ==
    IF res = "SUCCESS"
    THEN << Stdout("Transaction completed successfully.", "", "") >>
    ELSE << Stdout("Transaction was not successful", res, "") >>
         \o (IF problems # <<>>
             THEN << Stdout("Following issues happened when executing the transaction:", "", ""),
                     Stdout("transaction problem", problems[1], "") >>
             ELSE <<>>)

\* _do_transaction, lines 83-90: what is printed for a run result
ClassifyOutput(res, problems) ==
    IF res = "SUCCESS"
    THEN << Stdout("Transaction completed successfully.", "", "") >>
    ELSE << Stdout("Transaction was not successful", res, "") >>
         \o (IF problems # <<>>
             THEN << Stdout("Following issues happened when executing the transaction:", "", "") >>
                  \o [i \in DOMAIN problems |-> Stdout("transaction problem", problems[i], "")]
             ELSE <<>>)

-----------------------------------------------------------------------------
(* Steps of the script *)

Exit(status) == /\ pc' = "done"
                /\ exitStatus' = status

\* main, lines 307-312
UsageCheck ==
    /\ pc = "main"
    /\ IF UsageError(argv)
       THEN /\ log' = Append(log, Stdout("Invalid args", "", ""))
            /\ Exit(1)
       ELSE /\ pc' = "init"
            /\ UNCHANGED <<log, exitStatus>>
    /\ UNCHANGED <<argv, goal, unneeded, tx, result, txProblems, items>>

\* main line 314, __init__, _prepare_base, _prepare_logging, _prepare_repos:
\* nothing is caught, so an exception of the engine ends the process
InitCalls == << Call("Base", ""), Call("load_config_from_file", ""), Call("setup", ""),
                Call("add_logger", ""), Call("create_repos_from_system_configuration", ""),
                Call("update_and_load_enabled_repos", "") >>

Construct ==
    /\ pc = "init"
    /\ \E failAt \in {0, 2, 6} :
          IF failAt = 0
          THEN /\ log' = log \o InitCalls
               /\ pc' = "dispatch"
               /\ UNCHANGED exitStatus
          ELSE /\ log' = log \o SubSeq(InitCalls, 1, failAt) \o << Raise("RuntimeError") >>
               /\ Exit(1)
    /\ UNCHANGED <<argv, goal, unneeded, tx, result, txProblems, items>>

\* main lines 316-318; args[0] in line 193 raises IndexError on an empty list
ListCmd ==
    /\ pc = "dispatch"
    /\ Command(argv) = "list"
    /\ IF Args(argv) = <<>>
       THEN /\ log' = Append(log, Raise("IndexError"))
            /\ Exit(1)
            /\ UNCHANGED items
       ELSE /\ items' = List(Args(argv))
            /\ log' = Append(log, Stdout("items", "", ""))
            /\ pc' = "return"
            /\ UNCHANGED exitStatus
    /\ UNCHANGED <<argv, goal, unneeded, tx, result, txProblems>>

\* main lines 319-320 and ensure lines 220-241; args[0] in line 320 and
\* specs[0] in line 223 raise IndexError on an empty list
EnsureGoal ==
    /\ pc = "dispatch"
    /\ Command(argv) = "ensure"
    /\ IF Args(argv) = <<>>
       THEN /\ log' = Append(log, Raise("IndexError"))
            /\ Exit(1)
            /\ UNCHANGED <<goal, unneeded>>
       ELSE LET cmd == Args(argv)[1]
                specs == Tail(Args(argv))
            IN IF EnsureRaises(cmd, specs)
               THEN /\ log' = log \o << Call("Goal", ""), Raise("IndexError") >>
                    /\ Exit(1)
                    /\ UNCHANGED <<goal, unneeded>>
               ELSE /\ unneeded' \in (IF cmd = "autoremove" THEN UnneededChoices ELSE {<<>>})
                    /\ goal' = EnsureIntents(cmd, specs, unneeded')
                    /\ log' = log \o << Call("Goal", "") >> \o IntentCalls(goal')
                    /\ pc' = StepAfter("goal")
                    /\ UNCHANGED exitStatus
    /\ UNCHANGED <<argv, tx, result, txProblems, items>>

\* main: neither branch of lines 316-320
OtherCmd ==
    /\ pc = "dispatch"
    /\ Command(argv) \notin {"list", "ensure"}
    /\ pc' = "return"
    /\ UNCHANGED <<argv, log, goal, unneeded, tx, result, txProblems, items, exitStatus>>

\* ensure line 247
Resolve ==
    /\ pc = "resolve"
    /\ tx' \in ResolveOutcomes(goal)
    /\ log' = Append(log, Call("resolve", ""))
    /\ pc' = StepAfter("resolve")
    /\ UNCHANGED <<argv, goal, unneeded, result, txProblems, items, exitStatus>>

\* ensure lines 250-258
SigEvents(pkgs, res) ==
    Concat([i \in DOMAIN pkgs |->
              << Call("check_package_signature", pkgs[i][1]) >>
              \o (IF res[i] # "OK"
                  THEN << Stdout("Failed to validate package signature", pkgs[i][1], res[i]) >>
                  ELSE <<>>)])

CheckSignatures ==
    /\ pc = "signatures"
    /\ \E res \in [DOMAIN tx.pkgs -> SigResults] :
          log' = log \o SigEvents(tx.pkgs, res)
    /\ pc' = StepAfter("signatures")
    /\ UNCHANGED <<argv, goal, unneeded, tx, result, txProblems, items, exitStatus>>

\* faulty variant: resolve problems end the run
ReportProblems_Abort ==
    /\ pc = "problems"
    /\ IF tx.problems # <<>>
       THEN /\ log' = log \o
                  << Stdout("Following issues happened when resolving the transaction:", "", "") >>
                  \o [i \in DOMAIN tx.problems |-> Stdout("resolve log", tx.problems[i], "")]
            /\ Exit(1)
       ELSE /\ log' = Append(log, Stdout("Transaction resolved correctly.", "", ""))
            /\ pc' = "summary"
            /\ UNCHANGED exitStatus
    /\ UNCHANGED <<argv, goal, unneeded, tx, result, txProblems, items>>

\* ensure lines 261-266
ReportProblems ==
    /\ pc = "problems"
    /\ log' = log \o
          (IF tx.problems # <<>>
           THEN << Stdout("Following issues happened when resolving the transaction:", "", "") >>
                \o [i \in DOMAIN tx.problems |-> Stdout("resolve log", tx.problems[i], "")]
           ELSE << Stdout("Transaction resolved correctly.", "", "") >>)
    /\ pc' = StepAfter("problems")
    /\ UNCHANGED <<argv, goal, unneeded, tx, result, txProblems, items, exitStatus>>

\* ensure lines 269-275
PrintSummary ==
    /\ pc = "summary"
    /\ log' = log \o
          (IF tx.pkgs # <<>>
           THEN << Stdout("Transaction summary:", "", "") >>
                \o [i \in DOMAIN tx.pkgs |-> Stdout("Package", tx.pkgs[i][1], tx.pkgs[i][2])]
           ELSE << Stdout("Transaction is empty.", "", "") >>)
    /\ pc' = StepAfter("summary")
    /\ UNCHANGED <<argv, goal, unneeded, tx, result, txProblems, items, exitStatus>>

\* ensure line 278, _do_transaction line 72
Download ==
    /\ pc = "download"
    /\ log' = Append(log, Call("download", ""))
    /\ pc' = StepAfter("download")
    /\ UNCHANGED <<argv, goal, unneeded, tx, result, txProblems, items, exitStatus>>

\* _do_transaction line 77
SetDescription ==
    /\ pc = "describe"
    /\ log' = Append(log, Call("set_description", "Ansible"))
    /\ pc' = StepAfter("describe")
    /\ UNCHANGED <<argv, goal, unneeded, tx, result, txProblems, items, exitStatus>>

\* _do_transaction line 80
Run ==
    /\ pc = "run"
    /\ result' \in RunResults
    /\ txProblems' \in ProblemLogs
    /\ log' = Append(log, Call("run", ""))
    /\ pc' = StepAfter("run")
    /\ UNCHANGED <<argv, goal, unneeded, tx, items, exitStatus>>

\* _do_transaction lines 83-90
Classify ==
    /\ pc = "classify"
    /\ log' = log \o ClassifyOutput(result, txProblems)
    /\ pc' = StepAfter("classify")
    /\ UNCHANGED <<argv, goal, unneeded, tx, result, txProblems, items, exitStatus>>

\* faulty variant: a failed transaction sets the exit status
MainReturn_FailStatus ==
    /\ pc = "return"
    /\ Exit(IF result \in {"", "SUCCESS"} THEN 0 ELSE 1)
    /\ UNCHANGED <<argv, log, goal, unneeded, tx, result, txProblems, items>>

\* main returns; the interpreter exits with status 0
MainReturn ==
    /\ pc = "return"
    /\ Exit(0)
    /\ UNCHANGED <<argv, log, goal, unneeded, tx, result, txProblems, items>>

Next ==
    \/ UsageCheck
    \/ Construct
    \/ ListCmd
    \/ EnsureGoal
    \/ OtherCmd
    \/ Resolve
    \/ CheckSignatures
    \/ ReportProblems
    \/ PrintSummary
    \/ Download
    \/ SetDescription
    \/ Run
    \/ Classify
    \/ MainReturn

Spec == Init /\ [][Next]_vars

TypeOK ==
    /\ argv \in Argvs
    /\ pc \in {"main", "init", "dispatch", "resolve", "signatures", "problems", "summary",
               "download", "describe", "run", "classify", "return", "done"}
    /\ exitStatus \in {-1, 0, 1}
    /\ (pc = "done") <=> (exitStatus # -1)
-----------------------------------------------------------------------------
(* Vocabulary of the properties *)

IntentNames == {"add_install", "add_upgrade", "add_remove", "add_rpm_upgrade", "add_rpm_remove"}
KnownActions == {"installed", "present", "latest", "absent", "autoremove"}

IntentCallsAt == {i \in DOMAIN log : log[i][1] = "call" /\ log[i][2] \in IntentNames}
ProblemReportAt ==
    PrintsOf("Following issues happened when resolving the transaction:")
    \cup PrintsOf("resolve log") \cup PrintsOf("Transaction resolved correctly.")
SigCheckAt == CallsOf("check_package_signature") \cup PrintsOf("Failed to validate package signature")
ClassifyAt ==
    PrintsOf("Transaction completed successfully.") \cup PrintsOf("Transaction was not successful")
    \cup PrintsOf("Following issues happened when executing the transaction:")
    \cup PrintsOf("transaction problem")

Before(A, B) == \A i \in A, j \in B : i < j

PassedUsage == Len(argv) >= 3
IsEnsure == PassedUsage /\ argv[2] = "ensure"
IsList == PassedUsage /\ argv[2] = "list"
EnsureCmd == argv[3]
EnsureSpecs == SubSeq(argv, 4, Len(argv))
ListArgs == SubSeq(argv, 3, Len(argv))

InitFailed == At("raise", "RuntimeError") # {}
InitDone == CallsOf("update_and_load_enabled_repos") # {} /\ ~InitFailed
GoalBuilt == IsEnsure /\ pc \notin {"main", "init", "dispatch"} /\ InitDone
                      /\ At("raise", "IndexError") = {}
Resolved == CallsOf("resolve") # {}
Finished == pc = "done"

-----------------------------------------------------------------------------
(* C1: in every `ensure` invocation that passes the usage check and whose  *)
(* session was initialised, whatever the action and the spec list (the     *)
(* empty one included), the goal is resolved exactly once, after every     *)
(* intent-adding call.                                                     *)
C1_ResolvedOnceAfterIntents ==
    (Finished /\ IsEnsure /\ InitDone) =>
        /\ Cardinality(CallsOf("resolve")) = 1
        /\ Before(IntentCallsAt, CallsOf("resolve"))

-----------------------------------------------------------------------------
(* C2: once `ensure` has built its goal, the goal holds exactly these      *)
(* intents and no others: present/installed - one install per spec;        *)
(* latest with the single spec `*` - one whole-system upgrade; latest with *)
(* no `*` among the specs - one upgrade per spec; absent - one removal per *)
(* spec; autoremove - one package removal per unneeded package returned by *)
(* the query.  The intent-adding calls made are those of the goal.         *)
C2_ActionMapping ==
    GoalBuilt =>
        /\ EnsureCmd \in {"present", "installed"} =>
              goal = [i \in DOMAIN EnsureSpecs |-> <<"add_install", EnsureSpecs[i]>>]
        /\ (EnsureCmd = "latest" /\ EnsureSpecs = <<"*">>) =>
              goal = << <<"add_rpm_upgrade", "">> >>
        /\ (EnsureCmd = "latest" /\ \A i \in DOMAIN EnsureSpecs : EnsureSpecs[i] # "*") =>
              goal = [i \in DOMAIN EnsureSpecs |-> <<"add_upgrade", EnsureSpecs[i]>>]
        /\ EnsureCmd = "absent" =>
              goal = [i \in DOMAIN EnsureSpecs |-> <<"add_remove", EnsureSpecs[i]>>]
        /\ EnsureCmd = "autoremove" =>
              goal = [i \in DOMAIN unneeded |-> <<"add_rpm_remove", unneeded[i]>>]
        /\ Cardinality(IntentCallsAt) = Len(goal)
        /\ \A k \in DOMAIN goal :
              \E i \in IntentCallsAt :
                  /\ log[i][2] = goal[k][1] /\ log[i][3] = goal[k][2]
                  /\ Cardinality({j \in IntentCallsAt : j <= i}) = k

C2_Witness ==
    /\ GoalBuilt /\ pc = "resolve"
    /\ EnsureCmd = "autoremove" /\ Len(goal) = 2

-----------------------------------------------------------------------------
(* C3: once a transaction was returned by goal resolution, the run ends    *)
(* with exactly one download call followed by exactly one run call,        *)
(* whatever the resolve problems and the signature results; these are      *)
(* only printed.                                                           *)
C3_AlwaysExecutes ==
    (Finished /\ Resolved) =>
        /\ Cardinality(CallsOf("download")) = 1
        /\ Cardinality(CallsOf("run")) = 1
        /\ Before(CallsOf("resolve"), CallsOf("download"))
        /\ Before(CallsOf("download"), CallsOf("run"))
        /\ tx.problems # <<>> =>
              PrintsOf("Following issues happened when resolving the transaction:") # {}

C3_Witness ==
    /\ Finished /\ Resolved
    /\ tx.problems # <<>>
    /\ PrintsOf("Failed to validate package signature") # {}
    /\ CallsOf("run") # {}

-----------------------------------------------------------------------------
(* C4: for an `ensure` action outside installed, present, latest, absent,  *)
(* autoremove, with any spec list: no intent is added, the empty goal is   *)
(* resolved, the transaction is reported as empty, and download and run    *)
(* are invoked; the run ends normally.                                     *)
C4_UnknownAction ==
    (IsEnsure /\ EnsureCmd \notin KnownActions) =>
        /\ goal = <<>>
        /\ IntentCallsAt = {}
        /\ (Finished /\ InitDone) =>
              /\ Cardinality(CallsOf("resolve")) = 1
              /\ PrintsOf("Transaction is empty.") # {}
              /\ PrintsOf("Transaction summary:") = {}
              /\ Cardinality(CallsOf("download")) = 1
              /\ Cardinality(CallsOf("run")) = 1
              /\ At("raise", "IndexError") = {}
              /\ exitStatus = 0

C4_Witness ==
    /\ Finished /\ IsEnsure /\ EnsureCmd = "bogus" /\ Len(EnsureSpecs) = 2
    /\ CallsOf("run") # {}

-----------------------------------------------------------------------------
(* C5, as stated: after the goal is resolved, the resolve problems are     *)
(* reported, then the signatures are verified, then the packages are       *)
(* downloaded, then the description `Ansible` is attached and the          *)
(* transaction is run, then the run result is reported.                    *)
C5_SpecOrder ==
    /\ Before(CallsOf("resolve"), ProblemReportAt)
    /\ Before(ProblemReportAt, SigCheckAt)
    /\ Before(SigCheckAt, CallsOf("download"))
    /\ Before(CallsOf("download"), CallsOf("set_description"))
    /\ Before(CallsOf("set_description"), CallsOf("run"))
    /\ Before(CallsOf("run"), ClassifyAt)

(* C5, amended: after the goal is resolved, the signature of every package *)
(* of the transaction is verified and failures are reported, then the      *)
(* resolve problems are reported, then the packages are downloaded, then   *)
(* the description `Ansible` is attached and the transaction is run, then  *)
(* the run result is reported.                                             *)
C5_CodeOrder ==
    /\ Before(CallsOf("resolve"), SigCheckAt)
    /\ Before(SigCheckAt, ProblemReportAt)
    /\ Before(CallsOf("resolve"), ProblemReportAt)
    /\ Before(ProblemReportAt, CallsOf("download"))
    /\ Before(CallsOf("download"), CallsOf("set_description"))
    /\ Before(CallsOf("set_description"), CallsOf("run"))
    /\ Before(CallsOf("run"), ClassifyAt)
    /\ \A i \in CallsOf("set_description") : log[i][3] = "Ansible"
    /\ ProblemReportAt # {} =>
          \A k \in DOMAIN tx.pkgs :
              \E i \in CallsOf("check_package_signature") : log[i][3] = tx.pkgs[k][1]
    /\ (Finished /\ Resolved) =>
          /\ ProblemReportAt # {}
          /\ CallsOf("set_description") # {}
          /\ ClassifyAt # {}

C5_Witness ==
    /\ Finished /\ Resolved
    /\ Len(tx.pkgs) = 2
    /\ tx.problems # <<>>
    /\ ClassifyAt # {}

-----------------------------------------------------------------------------
(* C6: once the run result is reported, success is printed iff the result  *)
(* is SUCCESS; for any other result the failure is printed with the result *)
(* and every problem string of the execution is printed, in order, none    *)
(* omitted; on success no problem string is printed.                       *)
PrintedTxProblems ==
    LET evs == SelectName(log, {"transaction problem"})
    IN [i \in DOMAIN evs |-> evs[i][3]]

C6_ResultClassification ==
    (pc \in {"return", "done"} /\ CallsOf("run") # {}) =>
        /\ (PrintsOf("Transaction completed successfully.") # {}) <=> (result = "SUCCESS")
        /\ (PrintsOf("Transaction was not successful") # {}) <=> (result # "SUCCESS")
        /\ result # "SUCCESS" => PrintedTxProblems = txProblems
        /\ result = "SUCCESS" => PrintedTxProblems = <<>>

C6_Witness ==
    /\ Finished /\ CallsOf("run") # {}
    /\ result = "ERROR_RPM_RUN" /\ Len(txProblems) = 2

-----------------------------------------------------------------------------
(* C7: `list` dispatches on its first argument only: installed, upgrades   *)
(* or available gives the records of that filter; repos or repositories    *)
(* gives the enabled repository identifiers; anything else makes all       *)
(* arguments specs, each resolved on its own against the whole index, the  *)
(* results concatenated in argument order, duplicates kept; no match gives *)
(* the empty list.                                                         *)
RECURSIVE MatchesBefore(_, _)
MatchesBefore(args, k) ==
    IF k <= 1 THEN 0
    ELSE MatchesBefore(args, k - 1) + Len(ResolvePkgSpec(args[k - 1]))

C7_ListDispatch ==
    (IsList /\ PrintsOf("items") # {}) =>
        LET a == ListArgs IN
        /\ a[1] \in {"installed", "upgrades", "available"} =>
              /\ Len(items) = Len(QueryFilter(a[1]))
              /\ \A i \in DOMAIN items :
                    /\ items[i].name = QueryFilter(a[1])[i].name
                    /\ items[i].version = QueryFilter(a[1])[i].version
                    /\ items[i].repo = QueryFilter(a[1])[i].repo
                    /\ (a[1] = "installed") <=> (items[i].repo = "@System")
        /\ a[1] \in {"repos", "repositories"} =>
              [i \in DOMAIN items |-> items[i].repoid] = EnabledRepos
        /\ a[1] \notin {"installed", "upgrades", "available", "repos", "repositories"} =>
              /\ Len(items) = MatchesBefore(a, Len(a) + 1)
              /\ \A k \in DOMAIN a :
                    LET m == ResolvePkgSpec(a[k]) IN
                    \A i \in DOMAIN m :
                        LET it == items[MatchesBefore(a, k) + i] IN
                        /\ it.name = m[i].name /\ it.version = m[i].version
                        /\ it.repo = m[i].repo /\ it.arch = m[i].arch
                        /\ it.release = m[i].release
                        /\ it.epoch = (IF m[i].epoch = 0 THEN "0" ELSE "1")
              /\ (\A k \in DOMAIN a : ResolvePkgSpec(a[k]) = <<>>) => items = <<>>

C7_Witness ==
    /\ Finished /\ argv = <<Prog, "list", "a", "*">>
    /\ Len(items) = 6 /\ items[1] = items[3]

-----------------------------------------------------------------------------
(* C8: with fewer than 3 command-line arguments the script prints the      *)
(* usage error and exits with status 1 without constructing the session,   *)
(* loading configuration or repositories, or running list or ensure; with  *)
(* 3 or more arguments the usage error is never printed.                   *)
C8_UsageCheck ==
    /\ Len(argv) < 3 =>
          /\ \A i \in DOMAIN log : log[i][1] # "call"
          /\ items = <<>> /\ goal = <<>>
          /\ Finished => (exitStatus = 1 /\ log = << Stdout("Invalid args", "", "") >>)
    /\ Len(argv) >= 3 => PrintsOf("Invalid args") = {}

C8_Witness ==
    /\ Finished /\ Len(argv) = 2 /\ exitStatus = 1
    /\ PrintsOf("Invalid args") # {}

-----------------------------------------------------------------------------
(* C9, as stated: once the usage check has passed, a failure of the        *)
(* initialisation, a non-empty resolve problem list, a signature check     *)
(* failure or a run result other than SUCCESS leaves the exit status that  *)
(* of a successful run, 0.                                                 *)
DeeperFailure ==
    \/ InitFailed
    \/ tx.problems # <<>>
    \/ PrintsOf("Failed to validate package signature") # {}
    \/ result \notin {"", "SUCCESS"}

C9_ExitStatusUnchanged ==
    (Finished /\ PassedUsage /\ DeeperFailure) => exitStatus = 0

(* C9, amended: once the usage check has passed, a non-empty resolve       *)
(* problem list, a signature check failure or a run result other than      *)
(* SUCCESS is only printed and the process ends with status 0, as a        *)
(* successful run does; a configuration or repository load failure during  *)
(* the initialisation is an uncaught exception: nothing is printed by the  *)
(* script, no list or ensure step runs, and the exit status is 1.          *)
C9_ExitStatusByFailure ==
    /\ (Finished /\ Resolved) => exitStatus = 0
    /\ InitFailed =>
          /\ Finished /\ exitStatus = 1
          /\ \A i \in DOMAIN log : log[i][1] # "print"
          /\ CallsOf("Goal") = {} /\ items = <<>>

C9_Witness ==
    /\ Finished /\ Resolved /\ exitStatus = 0
    /\ tx.problems # <<>>
    /\ PrintsOf("Failed to validate package signature") # {}
    /\ result = "ERROR_RESOLVE"

-----------------------------------------------------------------------------
(* C10: for `ensure latest` the first spec alone selects the whole-system  *)
(* upgrade: when it is `*` the goal is exactly one whole-system upgrade    *)
(* intent, whatever follows; otherwise every spec, a later `*` included,   *)
(* gets one per-package upgrade intent.                                    *)
C10_FirstSpecWildcard ==
    (GoalBuilt /\ EnsureCmd = "latest" /\ EnsureSpecs # <<>>) =>
        IF EnsureSpecs[1] = "*"
        THEN /\ goal = << <<"add_rpm_upgrade", "">> >>
             /\ CallsOf("add_upgrade") = {}
             /\ Cardinality(CallsOf("add_rpm_upgrade")) = 1
        ELSE /\ goal = [i \in DOMAIN EnsureSpecs |-> <<"add_upgrade", EnsureSpecs[i]>>]
             /\ CallsOf("add_rpm_upgrade") = {}
             /\ Cardinality(CallsOf("add_upgrade")) = Len(EnsureSpecs)

C10_Witness ==
    /\ GoalBuilt /\ pc = "resolve"
    /\ argv = <<Prog, "ensure", "latest", "*", "a">>
    /\ Len(goal) = 1

====
